---- MODULE Spec2Model ----
(***************************************************************************)
(* Model of one polling cycle of Email2Jira.run (src/src/email2jira.py)    *)
(* together with the two collaborators it drives: EmailReader              *)
(* (src/src/email_reader.py) and JiraClient (src/src/jira_client.py).      *)
(*                                                                         *)
(* The libraries underneath (imaplib, jira) are the environment: every     *)
(* library call either succeeds or raises / answers with a non-OK status,  *)
(* chosen nondeterministically.  The collaborators turn those outcomes     *)
(* into return values exactly as their try/except blocks do.               *)
(*                                                                         *)
(* run() is cut into one action per collaborator call.  None of the        *)
(* collaborator methods lets an Exception escape (each body is wrapped in  *)
(* try/except Exception), so the outer handler of run (lines 164-166) has  *)
(* no transition leading to it and is not an action of the model.          *)
(***************************************************************************)
EXTENDS Integers, Sequences, FiniteSets, TLC

\* ------------------------------------------------------------------ bounds
MaxUnread == 3        \* most UNSEEN messages in the mailbox
MaxAttachments == 1   \* most attachments on one message
MaxLimit == 3         \* largest max_emails given to run

LimitValues == (0 - 1)..MaxLimit

VARIABLES
  pc,                \* position inside run()
  dry_run,           \* argument of run
  max_emails,        \* argument of run
  unseen,            \* server side: ids the UNSEEN search returns, in order;
                     \* changed only by the STORE that mark_as_read issues
  mail,              \* server side: id -> number of attachment parts
  connection,        \* EmailReader.connection
  client,            \* JiraClient.client
  emails,            \* local of run: list returned by get_unread_emails
  idx,               \* position of the for loop in emails (0 before it)
  jira_data,         \* local of run: payload of the current message
  issue_key,         \* local of run: key of the current message's ticket
  successful_count,  \* local of run
  result,            \* return value of run ("none" while running)
  calls,             \* history: collaborator calls made by run, in order
  counted,           \* history: ids for which successful_count was increased
  log_errors,        \* history: logger.error records written by run's loop
  config,            \* ConfigManager.config: section -> keys that are set
  initialized,       \* return value of initialize ("none" before the call)
  exit_code,         \* exit status of main ("none" while running)
  api,               \* history: operations called on the JiraClient directly
  parser,            \* an EmailParser, its input message and what it returned
  server             \* history: what the IMAP server answered during the fetch

vars == <<pc, dry_run, max_emails, unseen, mail, connection, client, emails,
          idx, jira_data, issue_key, successful_count, result, calls,
          counted, log_errors, config, initialized, exit_code, api, parser,
          server>>

\* The state of main outside run.
mainVars == <<config, initialized, exit_code>>

\* The state used only when the collaborators are driven directly.
otherVars == <<api, parser>>

\* Nothing was asked of the IMAP server yet.
NoAnswer == [search |-> "none", failed |-> {}]

Call(op, msg, ret) == [op |-> op, msg |-> msg, ret |-> ret]

\* Python's bool as it is logged and returned.
Bool(b) == IF b THEN "True" ELSE "False"

Min(a, b) == IF a < b THEN a ELSE b
Max(a, b) == IF a > b THEN a ELSE b

\* ------------------------------------------------------------ EmailReader

\* One attachment record as _parse_email appends it: keys filename and path.
AttachmentRecord(k) == [filename |-> k, path |-> <<"attachments", k>>]

\* The message dictionary built by _parse_email plus the id set by
\* get_unread_emails.
EmailData(id, n) ==
  [id |-> id, attachments |-> [k \in 1..n |-> AttachmentRecord(k)]]

\* email_ids[:limit] with Python's slice semantics.
SliceLimit(ids, limit) ==
  IF limit >= 0
    THEN SubSeq(ids, 1, Min(limit, Len(ids)))
    ELSE SubSeq(ids, 1, Max(0, Len(ids) + limit))

\* connect(): the IMAP4 object is stored before login is attempted.
EmailReader_connect(conn, ctorOk, loginOk) ==
  [ret |-> ctorOk /\ loginOk,
   connection |-> IF ctorOk THEN "IMAP4" ELSE conn]

\* disconnect(): logout (errors swallowed), connection = None.
EmailReader_disconnect(conn) == "None"

\* select_mailbox(): False when not connected, when select raises or when
\* the status is not OK.
EmailReader_select_mailbox(conn, statusOk) == conn # "None" /\ statusOk

\* Faulty variant: a message whose fetch failed is kept in the list.
EmailReader_get_unread_emails_KeepFailed(conn, search, ids, att, limit, fetchOk) ==
  IF conn = "None" \/ search # "OK" \/ ids = <<>>
    THEN <<>>
    ELSE LET kept == SliceLimit(ids, limit)
         IN  [i \in 1..Len(kept) |-> EmailData(kept[i], att[kept[i]])]

\* get_unread_emails(limit): search is "OK", "NO" or "raise" (an exception
\* anywhere inside the try block); fetchOk[id] is the status of one fetch.
EmailReader_get_unread_emails(conn, search, ids, att, limit, fetchOk) ==
  IF conn = "None" \/ search # "OK" \/ ids = <<>>
    THEN <<>>
    ELSE LET kept == SelectSeq(SliceLimit(ids, limit),
                               LAMBDA id : fetchOk[id])
         IN  [i \in 1..Len(kept) |-> EmailData(kept[i], att[kept[i]])]

\* The ids get_unread_emails tried to fetch and got a status other than OK
\* for (lines 136-139).
FailedFetches(conn, search, ids, limit, fetchOk) ==
  IF conn = "None" \/ search # "OK" THEN {}
  ELSE {SliceLimit(ids, limit)[i] : i \in
          {k \in 1..Len(SliceLimit(ids, limit)) :
             ~fetchOk[SliceLimit(ids, limit)[k]]}}

\* mark_as_read(): False when not connected, when store raises or when the
\* status is not OK.
EmailReader_mark_as_read(conn, statusOk) == conn # "None" /\ statusOk

\* ------------------------------------------------------------- JiraClient

\* connect(): the JIRA object is stored before server_info is called.
JiraClient_connect(cl, ctorOk, infoOk) ==
  [ret |-> ctorOk /\ infoOk,
   client |-> IF ctorOk THEN "JIRA" ELSE cl]

\* Faulty variant: disconnect() leaves the client object in place.
JiraClient_disconnect_Keep(cl) == cl

\* disconnect(): client = None.
JiraClient_disconnect(cl) == "None"

\* create_issue(): None when not connected or when the library raises.
JiraClient_create_issue(cl, libOk) ==
  IF cl = "None" THEN "None" ELSE IF libOk THEN "KEY" ELSE "None"

\* add_attachment(): False when not connected or when the library raises.
JiraClient_add_attachment(cl, libOk) == cl # "None" /\ libOk

\* add_comment(): False when not connected or when the library raises.
JiraClient_add_comment(cl, libOk) == cl # "None" /\ libOk

\* get_project_keys() / get_issue_types(): [] when not connected or when
\* the library raises, else the list the server answers with.
JiraClient_get_list(cl, libOk) ==
  IF cl # "None" /\ libOk THEN "list" ELSE "[]"

\* The library call an operation makes: none when the guard
\* `if not self.client` returns early.
RemoteCall(cl, name) == IF cl = "None" THEN <<>> ELSE <<name>>

\* The library calls connect() makes: the JIRA constructor, then
\* server_info() when the constructor returned.
ConnectRemoteCalls(ctorOk) ==
  IF ctorOk THEN <<"JIRA", "server_info">> ELSE <<"JIRA">>

\* ------------------------------------------------------------ EmailParser

\* parse_email(): the payload carries the message's attachment list as is.
parse_email(email_data) == [attachments |-> email_data.attachments]

\* ------------------------------------------------- construction, main

\* The fields EmailReader.__init__ insists on (email_reader.py:35).
EmailRequired == {"server", "username", "password"}

\* The credentials of the Jira section (jira_client.py:29-31).
JiraCredentials == {"server", "username", "password"}

\* A configuration with every credential present.
FullConfig == [email |-> EmailRequired, jira |-> JiraCredentials]

\* EmailReader.__init__: ValueError when a required field is not a key of
\* the configuration.
EmailReader_init(cfg) == IF EmailRequired \subseteq cfg THEN "ok" ELSE "raise"

\* JiraClient.__init__: every field is read with config.get, nothing is
\* checked.
JiraClient_init(cfg) == "ok"

\* initialize(): False when load_config fails or a constructor raises.
initialize(loadOk, cfg) ==
  /\ loadOk
  /\ EmailReader_init(cfg.email) = "ok"
  /\ JiraClient_init(cfg.jira) = "ok"

\* ------------------------------------------------------- Email2Jira.run

\* Faulty variant: a failed source connect does not stop the cycle.
AfterSourceConnect_NoAbort(ok) == "select"

\* Where run goes after email_reader.connect() (lines 79-81).
AfterSourceConnect(ok) == IF ok THEN "select" ELSE "done"

\* Faulty variant: a failed select_mailbox does not stop the cycle.
AfterSelect_NoAbort(ok) == "fetch"

\* Where run goes after email_reader.select_mailbox() (lines 84-87).
AfterSelect(ok) == IF ok THEN "fetch" ELSE "done"

\* Faulty variant: the Jira connection is made in dry-run mode too.
AfterFetch_IgnoreDryRun(es, dry) ==
  IF es = <<>> THEN "done" ELSE "jira_connect"

\* Where run goes after get_unread_emails (lines 93-103).
AfterFetch(es, dry) ==
  IF es = <<>> THEN "done" ELSE IF dry THEN "parse" ELSE "jira_connect"

\* Faulty variant: an empty fetch is reported as a failed cycle.
NoUnreadResult_False == "False"

\* The value returned when no unread email was found (line 96).
NoUnreadResult == "True"

\* Faulty variant: a failed Jira connection does not stop the cycle.
AfterJiraConnect_NoAbort(ok) == "parse"

\* Where run goes after jira_client.connect() (lines 103-106).
AfterJiraConnect(ok) == IF ok THEN "parse" ELSE "done"

\* Where the loop body goes after parse_email (lines 113-122, 153).
AfterParse(raised, dry) ==
  IF raised THEN "next" ELSE IF dry THEN "mark" ELSE "create"

\* Faulty variant: a failed create_issue is tried again.
AfterCreate_Retry(key) == IF key = "None" THEN "create" ELSE "attach"

\* Where the loop body goes after create_issue (lines 134-136).
AfterCreate(key) == IF key = "None" THEN "next" ELSE "attach"

\* attachment['content'] (line 144): a KeyError unless the record has the key.
HasContent(attachment) == "content" \in DOMAIN attachment

\* Index of the first attachment whose 'content' lookup raises, 0 if none.
FirstKeyError(atts) ==
  IF \E i \in 1..Len(atts) : ~HasContent(atts[i])
    THEN CHOOSE i \in 1..Len(atts) :
           /\ ~HasContent(atts[i])
           /\ \A j \in 1..(i - 1) : HasContent(atts[j])
    ELSE 0

\* Faulty variant: successful_count += 1 placed before the attachment loop.
AttachCounted_BeforeLoop(raised) == TRUE

\* successful_count += 1 sits after the attachment loop (line 148).
AttachCounted(raised) == ~raised

\* Where the loop body goes after the attachment loop (lines 141-153).
AfterAttach(raised) == IF raised THEN "next" ELSE "mark"

\* Faulty variant: the Jira client is disconnected before the reader.
DisconnectOrder_SinkFirst(dry) ==
  IF dry THEN <<"email_reader.disconnect">>
         ELSE <<"jira_client.disconnect", "email_reader.disconnect">>

\* The disconnect calls that end a full cycle, in order (lines 157-159).
DisconnectOrder(dry) ==
  IF dry THEN <<"email_reader.disconnect">>
         ELSE <<"email_reader.disconnect", "jira_client.disconnect">>

\* Faulty variant: a cycle in which no message succeeded reports failure.
CycleResult_NeedsSuccess(fetched, succeeded) ==
  IF succeeded > 0 THEN "True" ELSE "False"

\* The value run returns after the loop, whatever was counted (line 162).
CycleResult(fetched, succeeded) == "True"

\* The for loop moves on to the next element of emails, or ends.
LoopPc(i, n) == IF i <= n THEN "parse" ELSE "disconnect"

CurrentId == emails[idx].id

RunState == <<dry_run, max_emails, mail, mainVars, otherVars>>

Init ==
  /\ pc = "connect"
  /\ dry_run \in BOOLEAN
  /\ max_emails \in LimitValues
  /\ \E n \in 0..MaxUnread :
       /\ unseen = [i \in 1..n |-> i]
       /\ mail \in [1..n -> 0..MaxAttachments]
  /\ connection = "None"
  /\ client = "None"
  /\ emails = <<>>
  /\ idx = 0
  /\ jira_data = "None"
  /\ issue_key = "None"
  /\ successful_count = 0
  /\ result = "none"
  /\ calls = <<>>
  /\ counted = {}
  /\ log_errors = <<>>
  /\ config = FullConfig
  /\ initialized = "True"
  /\ exit_code = "none"
  /\ api = <<>>
  /\ parser = "none"
  /\ server = NoAnswer

\* lines 77-81
ConnectSource ==
  /\ pc = "connect"
  /\ \E ctorOk \in BOOLEAN, loginOk \in BOOLEAN :
       LET r == EmailReader_connect(connection, ctorOk, loginOk)
           nxt == AfterSourceConnect(r.ret)
       IN  /\ connection' = r.connection
           /\ calls' = Append(calls, Call("email_reader.connect", 0, Bool(r.ret)))
           /\ pc' = nxt
           /\ result' = IF nxt = "done" THEN "False" ELSE result
  /\ UNCHANGED <<RunState, server, unseen, client, emails, idx, jira_data, issue_key,
                 successful_count, counted, log_errors>>

\* lines 83-87
SelectMailbox ==
  /\ pc = "select"
  /\ \E statusOk \in BOOLEAN :
       LET ok == EmailReader_select_mailbox(connection, statusOk)
           nxt == AfterSelect(ok)
       IN  IF nxt = "done"
             THEN /\ connection' = EmailReader_disconnect(connection)
                  /\ calls' = calls \o
                       << Call("email_reader.select_mailbox", 0, Bool(ok)),
                          Call("email_reader.disconnect", 0, "None") >>
                  /\ result' = "False"
                  /\ pc' = "done"
             ELSE /\ calls' =
                       Append(calls, Call("email_reader.select_mailbox", 0, Bool(ok)))
                  /\ pc' = nxt
                  /\ UNCHANGED <<connection, result>>
  /\ UNCHANGED <<RunState, server, unseen, client, emails, idx, jira_data, issue_key,
                 successful_count, counted, log_errors>>

\* lines 89-98, and line 109 when the loop is entered directly (dry run)
GetUnread ==
  /\ pc = "fetch"
  /\ \E search \in {"OK", "NO", "raise"},
        fetchOk \in [DOMAIN mail -> BOOLEAN] :
       LET es == EmailReader_get_unread_emails(connection, search, unseen,
                                               mail, max_emails, fetchOk)
           nxt == AfterFetch(es, dry_run)
           got == Call("email_reader.get_unread_emails", 0, "list")
       IN  /\ emails' = es
           /\ server' = [search |-> search,
                         failed |-> FailedFetches(connection, search, unseen,
                                                  max_emails, fetchOk)]
           /\ IF nxt = "done"
                THEN /\ connection' = EmailReader_disconnect(connection)
                     /\ calls' = calls \o
                          << got, Call("email_reader.disconnect", 0, "None") >>
                     /\ result' = NoUnreadResult
                     /\ idx' = idx
                ELSE /\ calls' = Append(calls, got)
                     /\ idx' = IF nxt = "parse" THEN 1 ELSE idx
                     /\ UNCHANGED <<connection, result>>
           /\ pc' = nxt
  /\ successful_count' = 0
  /\ UNCHANGED <<RunState, unseen, client, jira_data, issue_key, counted,
                 log_errors>>

\* lines 100-109
ConnectSink ==
  /\ pc = "jira_connect"
  /\ \E ctorOk \in BOOLEAN, infoOk \in BOOLEAN :
       LET r == JiraClient_connect(client, ctorOk, infoOk)
           nxt == AfterJiraConnect(r.ret)
           con == Call("jira_client.connect", 0, Bool(r.ret))
       IN  /\ client' = r.client
           /\ IF nxt = "done"
                THEN /\ connection' = EmailReader_disconnect(connection)
                     /\ calls' = calls \o
                          << con, Call("email_reader.disconnect", 0, "None") >>
                     /\ result' = "False"
                     /\ idx' = idx
                ELSE /\ calls' = Append(calls, con)
                     /\ idx' = 1
                     /\ UNCHANGED <<connection, result>>
           /\ pc' = nxt
  /\ UNCHANGED <<RunState, server, unseen, emails, jira_data, issue_key,
                 successful_count, counted, log_errors>>

\* lines 111-121 and the handler at 153-154
ParseEmail ==
  /\ pc = "parse"
  /\ \E raised \in BOOLEAN :
       LET nxt == AfterParse(raised, dry_run)
       IN  /\ calls' = Append(calls,
                 Call("email_parser.parse_email", CurrentId,
                      IF raised THEN "raise" ELSE "payload"))
           /\ jira_data' = IF raised THEN jira_data
                                     ELSE parse_email(emails[idx])
           /\ IF nxt = "next"
                THEN /\ log_errors' =
                          Append(log_errors, [line |-> 154, msg |-> CurrentId])
                     /\ idx' = idx + 1
                     /\ pc' = LoopPc(idx + 1, Len(emails))
                     /\ UNCHANGED <<successful_count, counted>>
                ELSE /\ pc' = nxt
                     /\ successful_count' =
                          IF nxt = "mark" THEN successful_count + 1
                                          ELSE successful_count
                     /\ counted' =
                          IF nxt = "mark" THEN counted \cup {CurrentId}
                                          ELSE counted
                     /\ UNCHANGED <<idx, log_errors>>
  /\ UNCHANGED <<RunState, server, unseen, connection, client, emails, issue_key,
                 result>>

\* lines 123-138
CreateIssue ==
  /\ pc = "create"
  /\ \E libOk \in BOOLEAN :
       LET key == JiraClient_create_issue(client, libOk)
           nxt == AfterCreate(key)
       IN  /\ calls' = Append(calls,
                 Call("jira_client.create_issue", CurrentId, key))
           /\ issue_key' = key
           /\ IF nxt = "next"
                THEN /\ log_errors' =
                          Append(log_errors, [line |-> 135, msg |-> CurrentId])
                     /\ idx' = idx + 1
                     /\ pc' = LoopPc(idx + 1, Len(emails))
                ELSE /\ pc' = nxt
                     /\ UNCHANGED <<idx, log_errors>>
  /\ UNCHANGED <<RunState, server, unseen, connection, client, emails, jira_data,
                 successful_count, result, counted>>

\* lines 140-148 and the handler at 153-154
AddAttachments ==
  /\ pc = "attach"
  /\ LET atts == jira_data.attachments
         bad == FirstKeyError(atts)
         raised == bad # 0
         k == IF raised THEN bad - 1 ELSE Len(atts)
         nxt == AfterAttach(raised)
     IN  /\ \E libOk \in [1..k -> BOOLEAN] :
               calls' = calls \o
                 [i \in 1..k |->
                    Call("jira_client.add_attachment", CurrentId,
                         Bool(JiraClient_add_attachment(client, libOk[i])))]
         /\ IF AttachCounted(raised)
              THEN /\ successful_count' = successful_count + 1
                   /\ counted' = counted \cup {CurrentId}
              ELSE UNCHANGED <<successful_count, counted>>
         /\ log_errors' =
              IF raised
                THEN Append(log_errors, [line |-> 154, msg |-> CurrentId])
                ELSE log_errors
         /\ IF nxt = "next"
              THEN /\ idx' = idx + 1
                   /\ pc' = LoopPc(idx + 1, Len(emails))
              ELSE /\ pc' = nxt
                   /\ idx' = idx
  /\ UNCHANGED <<RunState, server, unseen, connection, client, emails, jira_data,
                 issue_key, result>>

\* lines 150-151
MarkAsRead ==
  /\ pc = "mark"
  /\ \E statusOk \in BOOLEAN :
       LET ok == EmailReader_mark_as_read(connection, statusOk)
       IN  /\ calls' = Append(calls,
                 Call("email_reader.mark_as_read", CurrentId, Bool(ok)))
           /\ unseen' = IF ok THEN SelectSeq(unseen, LAMBDA id : id # CurrentId)
                              ELSE unseen
  /\ idx' = idx + 1
  /\ pc' = LoopPc(idx + 1, Len(emails))
  /\ UNCHANGED <<RunState, server, connection, client, emails, jira_data, issue_key,
                 successful_count, result, counted, log_errors>>

\* lines 156-162
Disconnect ==
  /\ pc = "disconnect"
  /\ LET order == DisconnectOrder(dry_run)
     IN  /\ calls' = calls \o [i \in 1..Len(order) |-> Call(order[i], 0, "None")]
         /\ connection' =
              IF \E i \in 1..Len(order) : order[i] = "email_reader.disconnect"
                THEN EmailReader_disconnect(connection) ELSE connection
         /\ client' =
              IF \E i \in 1..Len(order) : order[i] = "jira_client.disconnect"
                THEN JiraClient_disconnect(client) ELSE client
  /\ result' = CycleResult(Len(emails), successful_count)
  /\ pc' = "done"
  /\ UNCHANGED <<RunState, server, unseen, emails, idx, jira_data, issue_key,
                 successful_count, counted, log_errors>>

Next ==
  \/ ConnectSource
  \/ SelectMailbox
  \/ GetUnread
  \/ ConnectSink
  \/ ParseEmail
  \/ CreateIssue
  \/ AddAttachments
  \/ MarkAsRead
  \/ Disconnect

Spec == Init /\ [][Next]_vars

TypeOK ==
  /\ pc \in {"main", "exit", "connect", "select", "fetch", "jira_connect", "parse", "create",
             "attach", "mark", "disconnect", "done"}
  /\ connection \in {"None", "IMAP4"}
  /\ client \in {"None", "JIRA"}
  /\ result \in {"none", "True", "False"}
  /\ successful_count \in 0..MaxUnread

\* ------------------------------------------------- reading the history

FetchedIds == {emails[i].id : i \in DOMAIN emails}

\* run called op (for message id; 0 for the calls that take no message).
Invoked(op, id) ==
  \E i \in DOMAIN calls : calls[i].op = op /\ calls[i].msg = id

\* run called op for message id and got ret back.
Returned(op, id, ret) ==
  \E i \in DOMAIN calls :
     calls[i].op = op /\ calls[i].msg = id /\ calls[i].ret = ret

PerMessageOps ==
  {"email_parser.parse_email", "jira_client.create_issue",
   "jira_client.add_attachment", "email_reader.mark_as_read"}

NoPerMessageCall == \A i \in DOMAIN calls : calls[i].op \notin PerMessageOps

\* The cycle got past the sink connection and into the for loop.
LoopReached == idx > 0

\* Number of error records run wrote for message id.
Failures(id) ==
  Cardinality({i \in DOMAIN log_errors : log_errors[i].msg = id})

\* ----------------------------------------------------------------- claims

\* C1: in a non-dry-run cycle a message whose create_issue returned no key is
\* never marked read, every other fetched message is still processed, and
\* with 3 messages of which only the 2nd creation fails the succeeded count
\* is 2 and mark_as_read is invoked for messages 1 and 3 but not 2.
C1_FailedCreationIsolated ==
  (~dry_run /\ pc = "done" /\ LoopReached) =>
     /\ \A id \in FetchedIds :
          Returned("jira_client.create_issue", id, "None")
            => ~Invoked("email_reader.mark_as_read", id)
     /\ \A id \in FetchedIds : Invoked("email_parser.parse_email", id)
     /\ ( /\ Len(emails) = 3
          /\ Returned("jira_client.create_issue", emails[1].id, "KEY")
          /\ Returned("jira_client.create_issue", emails[2].id, "None")
          /\ Returned("jira_client.create_issue", emails[3].id, "KEY") )
        => /\ successful_count = 2
           /\ Invoked("email_reader.mark_as_read", emails[1].id)
           /\ Invoked("email_reader.mark_as_read", emails[3].id)
           /\ ~Invoked("email_reader.mark_as_read", emails[2].id)

\* C2: in a non-dry-run cycle every message for which create_issue returned
\* a key has mark_as_read invoked for it, whatever its attachments are and
\* whatever happens while they are uploaded.
C2_TicketedIsMarkedRead ==
  (~dry_run /\ pc = "done" /\ LoopReached) =>
     \A id \in FetchedIds :
        Returned("jira_client.create_issue", id, "KEY")
          => Invoked("email_reader.mark_as_read", id)

\* C3: in a non-dry-run cycle, when jira_client.connect fails no message is
\* extracted, ticketed or marked read, every fetched message is still
\* unread, and run returns False.
C3_SinkConnectFailureAborts ==
  (~dry_run /\ Returned("jira_client.connect", 0, "False")) =>
     /\ NoPerMessageCall
     /\ \A id \in FetchedIds : \E i \in DOMAIN unseen : unseen[i] = id
     /\ pc = "done"
     /\ result = "False"

C3_Witness ==
  /\ ~dry_run
  /\ Returned("jira_client.connect", 0, "False")
  /\ Len(emails) >= 2
  /\ result = "False"

\* C4: when run has returned, every connection opened during the cycle has
\* been released: neither the reader nor the Jira client still holds one.
C4_AllReleased ==
  result # "none" => connection = "None" /\ client = "None"

\* C5: in dry-run mode the Jira client is never called, and mark_as_read is
\* invoked exactly for the messages whose parse_email returned a payload.
C5_DryRun ==
  dry_run =>
     /\ \A i \in DOMAIN calls :
          calls[i].op \notin {"jira_client.connect", "jira_client.create_issue",
                              "jira_client.add_attachment"}
     /\ \A id \in FetchedIds :
          Invoked("email_reader.mark_as_read", id)
            => Returned("email_parser.parse_email", id, "payload")
     /\ pc \in {"disconnect", "done"} =>
          \A id \in FetchedIds :
             Returned("email_parser.parse_email", id, "payload")
               => Invoked("email_reader.mark_as_read", id)

C5_Witness ==
  /\ dry_run
  /\ pc = "done"
  /\ \E id \in FetchedIds : Returned("email_parser.parse_email", id, "raise")
  /\ \E id \in FetchedIds : Invoked("email_reader.mark_as_read", id)

\* C6: when email_reader.connect or select_mailbox fails, run returns False
\* and nothing is fetched, extracted, ticketed or marked read, and the Jira
\* client is never connected.
C6_SourceFailureAborts ==
  ( \/ Returned("email_reader.connect", 0, "False")
    \/ Returned("email_reader.select_mailbox", 0, "False") ) =>
     /\ pc = "done"
     /\ result = "False"
     /\ emails = <<>>
     /\ NoPerMessageCall
     /\ ~Invoked("email_reader.get_unread_emails", 0)
     /\ ~Invoked("jira_client.connect", 0)

C6_Witness ==
  /\ Returned("email_reader.connect", 0, "True")
  /\ Returned("email_reader.select_mailbox", 0, "False")
  /\ Len(unseen) >= 1
  /\ result = "False"

\* C7: a cycle whose fetch yields no message returns True with zero
\* succeeded and no failure record, and makes no per-message call.
C7_ZeroUnread ==
  (pc = "done" /\ Invoked("email_reader.get_unread_emails", 0)
     /\ emails = <<>>) =>
     /\ result = "True"
     /\ successful_count = 0
     /\ counted = {}
     /\ log_errors = <<>>
     /\ NoPerMessageCall

C7_Witness ==
  /\ pc = "done"
  /\ Invoked("email_reader.get_unread_emails", 0)
  /\ unseen = <<>>
  /\ emails = <<>>
  /\ result = "True"

\* Position of a per-message call inside the processing of one message.
Rank(op) ==
  CASE op = "email_parser.parse_email" -> 1
    [] op = "jira_client.create_issue" -> 2
    [] op = "jira_client.add_attachment" -> 3
    [] op = "email_reader.mark_as_read" -> 4
    [] OTHER -> 0

\* Position in emails of the message with this id.
PosOf(id) == CHOOSE i \in DOMAIN emails : emails[i].id = id

SetupOrder ==
  << "email_reader.connect", "email_reader.select_mailbox",
     "email_reader.get_unread_emails", "jira_client.connect" >>

\* C8: in a non-dry-run cycle that fetched at least one message the calls
\* are: source connect, select, fetch, sink connect (once, before the first
\* extraction), then the messages one at a time, each as extract, create,
\* upload, mark read, then source disconnect, then sink disconnect.
C8_CallOrder ==
  (~dry_run /\ emails # <<>>) =>
     /\ \A i \in DOMAIN calls :
          /\ i <= 4 => calls[i].op = SetupOrder[i]
          /\ i > 4 => calls[i].op \notin
                        {SetupOrder[1], SetupOrder[2], SetupOrder[3],
                         SetupOrder[4]}
     /\ \A i, j \in DOMAIN calls :
          (i < j /\ calls[i].op \in PerMessageOps
                 /\ calls[j].op \in PerMessageOps) =>
             /\ PosOf(calls[i].msg) <= PosOf(calls[j].msg)
             /\ calls[i].msg = calls[j].msg =>
                  \/ Rank(calls[i].op) < Rank(calls[j].op)
                  \/ /\ calls[i].op = "jira_client.add_attachment"
                     /\ calls[j].op = "jira_client.add_attachment"
     /\ \A i, j \in DOMAIN calls :
          (i < j /\ calls[i].op = "email_reader.disconnect") =>
             /\ calls[j].op = "jira_client.disconnect"
             /\ j = i + 1
     /\ \A i \in DOMAIN calls :
          calls[i].op = "jira_client.disconnect" =>
             i > 1 /\ calls[i - 1].op = "email_reader.disconnect"
     /\ (pc = "done" /\ result = "True") =>
          /\ Len(calls) >= 6
          /\ calls[Len(calls) - 1].op = "email_reader.disconnect"
          /\ calls[Len(calls)].op = "jira_client.disconnect"
          /\ \A id \in FetchedIds : Invoked("email_parser.parse_email", id)

C8_Witness ==
  /\ ~dry_run
  /\ pc = "done"
  /\ result = "True"
  /\ Len(emails) >= 2
  /\ \A id \in FetchedIds : Invoked("email_reader.mark_as_read", id)

\* C9: every message the loop has finished with is accounted for exactly
\* once, either counted as succeeded or with exactly one error record, so
\* at the end fetched = succeeded + recorded failures.
C9_AccountedOnce ==
  LoopReached =>
     /\ \A i \in DOMAIN emails :
          i < idx =>
             \/ emails[i].id \in counted /\ Failures(emails[i].id) = 0
             \/ emails[i].id \notin counted /\ Failures(emails[i].id) = 1
     /\ successful_count = Cardinality(counted)
     /\ pc \in {"disconnect", "done"} =>
          Len(emails) = successful_count + Len(log_errors)

C9_Witness ==
  /\ pc = "done"
  /\ LoopReached
  /\ ~dry_run
  /\ counted # {}
  /\ \E i \in DOMAIN log_errors : log_errors[i].line = 135
  /\ \E i \in DOMAIN log_errors : log_errors[i].line = 154

\* C10: whenever a cycle fetches messages, their number is at most
\* max_emails, for every max_emails and every mailbox.
C10_FetchedAtMostMaxEmails ==
  emails # <<>> => Len(emails) <= max_emails

\* Number of times run called op (for message id; 0 for no message).
TimesInvoked(op, id) ==
  Cardinality({i \in DOMAIN calls : calls[i].op = op /\ calls[i].msg = id})

\* C11: nothing is retried within a cycle: source connect, mailbox select,
\* fetch and sink connect are each called at most once, and for each fetched
\* message parse_email, create_issue and mark_as_read are each called at
\* most once, whatever fails.
C11_NoRetry ==
  /\ \A i \in DOMAIN SetupOrder : TimesInvoked(SetupOrder[i], 0) <= 1
  /\ \A id \in FetchedIds :
       \A op \in {"email_parser.parse_email", "jira_client.create_issue",
                  "email_reader.mark_as_read"} :
          TimesInvoked(op, id) <= 1

C11_Witness ==
  /\ pc = "done"
  /\ Len(emails) >= 2
  /\ \E id \in FetchedIds : Returned("jira_client.create_issue", id, "None")
  /\ \E id \in FetchedIds : Returned("email_parser.parse_email", id, "raise")
  /\ \E id \in FetchedIds : Returned("email_reader.mark_as_read", id, "False")

\* ------------------------------------------------------------------ main

\* --max-emails defaults to 10 (email2jira.py:206).
DefaultMaxEmails == 10

MaxMainUnread == 2

\* main called with any configuration on a small mailbox.
InitMain ==
  /\ pc = "main"
  /\ dry_run \in BOOLEAN
  /\ max_emails = DefaultMaxEmails
  /\ \E n \in 0..MaxMainUnread :
       /\ unseen = [i \in 1..n |-> i]
       /\ mail \in [1..n -> 0..MaxAttachments]
  /\ connection = "None"
  /\ client = "None"
  /\ emails = <<>>
  /\ idx = 0
  /\ jira_data = "None"
  /\ issue_key = "None"
  /\ successful_count = 0
  /\ result = "none"
  /\ calls = <<>>
  /\ counted = {}
  /\ log_errors = <<>>
  /\ config \in [email : SUBSET EmailRequired, jira : SUBSET JiraCredentials]
  /\ initialized = "none"
  /\ exit_code = "none"
  /\ api = <<>>
  /\ parser = "none"
  /\ server = NoAnswer

\* main, lines 216-221: app.initialize(), exit 1 when it returns False
MainInitialize ==
  /\ pc = "main"
  /\ \E loadOk \in BOOLEAN :
       LET ok == initialize(loadOk, config)
       IN  /\ initialized' = Bool(ok)
           /\ pc' = IF ok THEN "connect" ELSE "exit"
           /\ exit_code' = IF ok THEN exit_code ELSE "1"
  /\ UNCHANGED <<dry_run, max_emails, unseen, mail, connection, client,
                 emails, idx, jira_data, issue_key, successful_count, result,
                 calls, counted, log_errors, config, otherVars, server>>

\* main, lines 223-227: exit 1 when run returned False, else fall off the end
MainExit ==
  /\ pc = "done"
  /\ pc' = "exit"
  /\ exit_code' = IF result = "False" THEN "1" ELSE "0"
  /\ UNCHANGED <<dry_run, max_emails, unseen, mail, connection, client,
                 emails, idx, jira_data, issue_key, successful_count, result,
                 calls, counted, log_errors, config, initialized, otherVars,
                 server>>

NextMain ==
  \/ MainInitialize
  \/ ConnectSource
  \/ SelectMailbox
  \/ GetUnread
  \/ ConnectSink
  \/ ParseEmail
  \/ CreateIssue
  \/ AddAttachments
  \/ MarkAsRead
  \/ Disconnect
  \/ MainExit

SpecMain == InitMain /\ [][NextMain]_vars

\* C12: when a required credential (server, username or password) of the
\* mail source or of the ticket sink is missing from the configuration,
\* initialize returns False, main exits non-zero, and neither connect is
\* ever attempted.
C12_MissingCredentialStopsMain ==
  (~(EmailRequired \subseteq config.email)
     \/ ~(JiraCredentials \subseteq config.jira)) =>
     /\ initialized # "True"
     /\ pc = "exit" => exit_code = "1"
     /\ ~Invoked("email_reader.connect", 0)
     /\ ~Invoked("jira_client.connect", 0)

\* ------------------------------------------- JiraClient driven directly

MaxOps == 3   \* most operations called on one JiraClient

\* Payload sizes of the attachment tests (test_jira_client.py:87, 93).
SmallPayload == 4
OversizePayload == 11 * 1024 * 1024

\* Every variable of run and main at rest.
RunIdle ==
  /\ dry_run = FALSE
  /\ max_emails = DefaultMaxEmails
  /\ unseen = <<>>
  /\ mail = <<>>
  /\ connection = "None"
  /\ emails = <<>>
  /\ idx = 0
  /\ jira_data = "None"
  /\ issue_key = "None"
  /\ successful_count = 0
  /\ result = "none"
  /\ calls = <<>>
  /\ counted = {}
  /\ log_errors = <<>>
  /\ config = FullConfig
  /\ initialized = "True"
  /\ exit_code = "none"
  /\ server = NoAnswer

runVars == <<pc, dry_run, max_emails, unseen, mail, connection, emails, idx,
             jira_data, issue_key, successful_count, result, calls, counted,
             log_errors, config, initialized, exit_code, server>>

\* A JiraClient right after construction.
InitJira ==
  /\ pc = "api"
  /\ RunIdle
  /\ client = "None"
  /\ api = <<>>
  /\ parser = "none"

\* One entry of the history: the operation, the client before it, what it
\* returned, the library calls it made and what the server would answer.
ApiCall(op, before, ret, remote, env) ==
  [op |-> op, before |-> before, ret |-> ret, remote |-> remote, env |-> env]

\* connect(); the server rejects the credentials or not, and knows the
\* configured project or not.
ApiConnect ==
  /\ Len(api) < MaxOps
  /\ \E authOk \in BOOLEAN, projectFound \in BOOLEAN,
        ctorOk \in BOOLEAN, infoOk \in BOOLEAN :
       /\ ~authOk => ~(ctorOk /\ infoOk)
       /\ LET r == JiraClient_connect(client, ctorOk, infoOk)
          IN  /\ client' = r.client
              /\ api' = Append(api,
                   ApiCall("connect", client, Bool(r.ret),
                           ConnectRemoteCalls(ctorOk),
                           [authOk |-> authOk, projectFound |-> projectFound]))
  /\ UNCHANGED <<runVars, parser>>

ApiDisconnect ==
  /\ Len(api) < MaxOps
  /\ client' = JiraClient_disconnect(client)
  /\ api' = Append(api, ApiCall("disconnect", client, "None", <<>>, "none"))
  /\ UNCHANGED <<runVars, parser>>

ApiCreateIssue ==
  /\ Len(api) < MaxOps
  /\ \E libOk \in BOOLEAN :
       api' = Append(api,
         ApiCall("create_issue", client, JiraClient_create_issue(client, libOk),
                 RemoteCall(client, "create_issue"), "none"))
  /\ UNCHANGED <<runVars, client, parser>>

ApiAddAttachment ==
  /\ Len(api) < MaxOps
  /\ \E libOk \in BOOLEAN, size \in {SmallPayload, OversizePayload} :
       api' = Append(api,
         ApiCall("add_attachment", client,
                 Bool(JiraClient_add_attachment(client, libOk)),
                 RemoteCall(client, "add_attachment"),
                 [size |-> size, libOk |-> libOk]))
  /\ UNCHANGED <<runVars, client, parser>>

ApiAddComment ==
  /\ Len(api) < MaxOps
  /\ \E libOk \in BOOLEAN :
       api' = Append(api,
         ApiCall("add_comment", client,
                 Bool(JiraClient_add_comment(client, libOk)),
                 RemoteCall(client, "add_comment"), "none"))
  /\ UNCHANGED <<runVars, client, parser>>

ApiGetProjectKeys ==
  /\ Len(api) < MaxOps
  /\ \E libOk \in BOOLEAN :
       api' = Append(api,
         ApiCall("get_project_keys", client, JiraClient_get_list(client, libOk),
                 RemoteCall(client, "projects"), "none"))
  /\ UNCHANGED <<runVars, client, parser>>

ApiGetIssueTypes ==
  /\ Len(api) < MaxOps
  /\ \E libOk \in BOOLEAN :
       api' = Append(api,
         ApiCall("get_issue_types", client, JiraClient_get_list(client, libOk),
                 RemoteCall(client, "issue_types"), "none"))
  /\ UNCHANGED <<runVars, client, parser>>

NextJira ==
  \/ ApiConnect
  \/ ApiDisconnect
  \/ ApiCreateIssue
  \/ ApiAddAttachment
  \/ ApiAddComment
  \/ ApiGetProjectKeys
  \/ ApiGetIssueTypes

SpecJira == InitJira /\ [][NextJira]_vars

\* C13: connect() returns True only if the credentials are accepted and the
\* configured project is found by a lookup made during connect.
C13_ConnectValidatesProject ==
  \A i \in DOMAIN api :
     (api[i].op = "connect" /\ api[i].ret = "True") =>
        /\ api[i].env.authOk
        /\ api[i].env.projectFound
        /\ \E k \in DOMAIN api[i].remote : api[i].remote[k] = "project"

\* What an operation returns when it fails.
FailureValue(op) ==
  CASE op = "create_issue" -> "None"
    [] op \in {"add_attachment", "add_comment"} -> "False"
    [] op \in {"get_project_keys", "get_issue_types"} -> "[]"

DataOps ==
  {"create_issue", "add_attachment", "add_comment", "get_project_keys",
   "get_issue_types"}

\* Before the i-th operation the client was never connected, or disconnect
\* was called after the last connect.
NotConnectedBefore(i) ==
  \A j \in 1..(i - 1) :
     api[j].op = "connect" =>
        \E k \in (j + 1)..(i - 1) : api[k].op = "disconnect"

\* C14: on a JiraClient that was never connected, or was disconnected after
\* a connect, create_issue returns None, add_attachment and add_comment
\* return False, get_project_keys and get_issue_types return an empty list,
\* no library call is made and the client stays None.
C14_NotConnectedRefused ==
  \A i \in DOMAIN api :
     (api[i].op \in DataOps /\ NotConnectedBefore(i)) =>
        /\ api[i].ret = FailureValue(api[i].op)
        /\ api[i].remote = <<>>
        /\ api[i].before = "None"
        /\ i = Len(api) => client = "None"

C14_Witness ==
  /\ Len(api) = 3
  /\ api[1].op = "connect" /\ api[1].ret = "True"
  /\ api[2].op = "disconnect"
  /\ api[3].op = "create_issue" /\ api[3].ret = "None"

\* C15: on a connected JiraClient add_attachment returns False without
\* uploading when the payload is over the size limit (the 11 MB payload of
\* the tests), and True for a small payload whose upload succeeds.
C15_AttachmentSizeLimit ==
  \A i \in DOMAIN api :
     (api[i].op = "add_attachment" /\ api[i].before # "None") =>
        /\ api[i].env.size = OversizePayload =>
             api[i].ret = "False" /\ api[i].remote = <<>>
        /\ (api[i].env.size = SmallPayload /\ api[i].env.libOk) =>
             api[i].ret = "True"

\* ------------------------------------------------------------ EmailParser
\* Text is a sequence of tokens.  A token is a run of characters of one
\* kind that the patterns and markers never split: a word ("type", "x",
\* "Regards"), a blank (" ", "\n") or a punctuation mark (":", ",", "--").

\* The character class a token belongs to: w for \w, s for \s.
Kind(t) ==
  CASE t \in {" ", "\n"} -> "s"
    [] t = ":" -> ":"
    [] t = "," -> ","
    [] t \in {"--", "-----"} -> "-"
    [] t = ">" -> ">"
    [] t = "." -> "."
    [] t = "@" -> "@"
    [] OTHER -> "w"

\* default_patterns (lines 36-42), in dictionary order: the keyword before
\* the colon, whether an "s" may follow it, and the classes of the group.
DefaultPatterns ==
  << [name |-> "issue_type", kw |-> "type", optS |-> FALSE, cls |-> {"w"}],
     [name |-> "priority", kw |-> "priority", optS |-> FALSE, cls |-> {"w"}],
     [name |-> "components", kw |-> "component", optS |-> TRUE,
      cls |-> {"w", "s", ","}],
     [name |-> "labels", kw |-> "label", optS |-> TRUE,
      cls |-> {"w", "s", ",", "-"}],
     [name |-> "assignee", kw |-> "assignee", optS |-> FALSE,
      cls |-> {"w", ".", "-", "@"}] >>

\* {**default_patterns, **custom_patterns} (line 45): a custom pattern takes
\* the place of the default of the same name, a new name goes to the end.
Patterns(custom) ==
  [i \in 1..Len(DefaultPatterns) |->
     IF \E k \in 1..Len(custom) : custom[k].name = DefaultPatterns[i].name
       THEN custom[CHOOSE k \in 1..Len(custom) :
                     custom[k].name = DefaultPatterns[i].name]
       ELSE DefaultPatterns[i]]
  \o SelectSeq(custom,
       LAMBDA c : \A i \in 1..Len(DefaultPatterns) :
                     DefaultPatterns[i].name # c.name)

\* Last index of the longest run of tokens of the given kinds that starts
\* at index from (from - 1 when the run is empty).
RunEnd(t, from, kinds) ==
  LET ends == {e \in (from - 1)..Len(t) :
                 \A k \in from..e : Kind(t[k]) \in kinds}
  IN  CHOOSE e \in ends : \A f \in ends : f <= e

\* Index of the colon of a match of `kw s? :` that starts at i, 0 if none.
ColonAt(pat, t, i) ==
  IF i > Len(t) \/ t[i] # pat.kw THEN 0
  ELSE IF i + 2 <= Len(t) /\ pat.optS /\ t[i + 1] = "s" /\ t[i + 2] = ":"
    THEN i + 2
  ELSE IF i + 1 <= Len(t) /\ t[i + 1] = ":" THEN i + 1
  ELSE 0

\* No match of a pattern.
NoMatch == [end |-> 0, gs |-> 0, ge |-> 0]

\* The match of `kw s? : \s* (cls+)` that starts at i: \s* and the group
\* are greedy, and \s* gives one blank back when the group would be empty.
MatchAt(pat, t, i) ==
  LET c == ColonAt(pat, t, i)
      a == RunEnd(t, c + 1, {"s"})
      e == RunEnd(t, a + 1, pat.cls)
  IN  IF c = 0 THEN NoMatch
      ELSE IF e > a THEN [end |-> e, gs |-> a + 1, ge |-> e]
      ELSE IF "s" \in pat.cls /\ a > c THEN [end |-> a, gs |-> a, ge |-> a]
      ELSE NoMatch

\* re.search: the leftmost match, NoMatch if there is none.
Search(pat, t) ==
  IF \E i \in 1..Len(t) : MatchAt(pat, t, i).end # 0
    THEN MatchAt(pat, t,
           CHOOSE i \in 1..Len(t) :
              /\ MatchAt(pat, t, i).end # 0
              /\ \A j \in 1..(i - 1) : MatchAt(pat, t, j).end = 0)
    ELSE NoMatch

\* re.sub(pattern, '', body): the matches are removed left to right.
RECURSIVE SubFrom(_, _, _)
SubFrom(pat, t, i) ==
  IF i > Len(t) THEN <<>>
  ELSE LET m == MatchAt(pat, t, i)
       IN  IF m.end # 0 THEN SubFrom(pat, t, m.end + 1)
           ELSE <<t[i]>> \o SubFrom(pat, t, i + 1)

\* lines 159-160: every pattern in turn, from the k-th on.
RECURSIVE RemoveFields(_, _, _)
RemoveFields(pats, body, k) ==
  IF k > Len(pats) THEN body
  ELSE RemoveFields(pats, SubFrom(pats[k], body, 1), k + 1)

\* lines 163-170
SignatureMarkers ==
  << <<"\n", "--", " ", "\n">>,
     <<"\n", "Regards", ",">>,
     <<"\n", "Best", " ", "regards", ",">>,
     <<"\n", "Thanks", ",">>,
     <<"\n", "Thank", " ", "you", ",">>,
     <<"\n", "Cheers", ",">> >>

\* lines 177-181
QuotedMarkers ==
  << <<"\n", "On", " ">>,
     <<"\n", ">", " ">>,
     <<"\n", "-----", "Original", " ", "Message", "-----">> >>

\* Indices at which marker occurs in body.
Occurrences(body, marker) ==
  {i \in 1..(Len(body) - Len(marker) + 1) :
     SubSeq(body, i, i + Len(marker) - 1) = marker}

\* Faulty variant: the text before the last occurrence is kept.
SplitFirst_Last(body, marker) ==
  LET at == Occurrences(body, marker)
  IN  IF at = {} THEN body
      ELSE SubSeq(body, 1, (CHOOSE i \in at : \A j \in at : i >= j) - 1)

\* if marker in body: body = body.split(marker)[0]
SplitFirst(body, marker) ==
  LET at == Occurrences(body, marker)
  IN  IF at = {} THEN body
      ELSE SubSeq(body, 1, (CHOOSE i \in at : \A j \in at : i <= j) - 1)

\* lines 172-174 and 183-185: the markers of one list in turn, from the
\* k-th on.
RECURSIVE Truncate(_, _, _)
Truncate(markers, body, k) ==
  IF k > Len(markers) THEN body
  ELSE Truncate(markers, SplitFirst(body, markers[k]), k + 1)

\* re.sub(r'\n{3,}', '\n\n', body): of a run of newlines only the first two
\* stay; run is the number of newlines right before index i.
RECURSIVE CollapseFrom(_, _, _)
CollapseFrom(t, i, run) ==
  IF i > Len(t) THEN <<>>
  ELSE IF t[i] = "\n"
    THEN (IF run >= 2 THEN <<>> ELSE <<t[i]>>)
         \o CollapseFrom(t, i + 1, run + 1)
    ELSE <<t[i]>> \o CollapseFrom(t, i + 1, 0)

\* str.strip()
Strip(t) ==
  LET ink == {i \in 1..Len(t) : Kind(t[i]) # "s"}
  IN  IF ink = {} THEN <<>>
      ELSE SubSeq(t, CHOOSE i \in ink : \A j \in ink : i <= j,
                     CHOOSE i \in ink : \A j \in ink : i >= j)

\* _clean_body up to the end of the two truncation loops (lines 159-185).
Truncated(pats, body) ==
  Truncate(QuotedMarkers,
           Truncate(SignatureMarkers, RemoveFields(pats, body, 1), 1), 1)

\* _clean_body (lines 148-191)
clean_body(pats, body) == Strip(CollapseFrom(Truncated(pats, body), 1, 0))

\* The pattern configured under a field name (self.patterns.get), as a
\* sequence of at most one pattern.
PatternOf(pats, field_name) == SelectSeq(pats, LAMBDA p : p.name = field_name)

\* A value that is None, and one that is a text.
None == [some |-> FALSE, text |-> <<>>]

Some(t) == [some |-> TRUE, text |-> t]

\* Python truth of an optional text: None and '' are false.
Truthy(v) == v.some /\ v.text # <<>>

\* _extract_field (lines 193-215)
extract_field(pats, text, field_name) ==
  IF text = <<>> THEN None
  ELSE IF PatternOf(pats, field_name) = <<>> THEN None
  ELSE LET m == Search(PatternOf(pats, field_name)[1], text)
       IN  IF m.end = 0 THEN None
           ELSE Some(Strip(SubSeq(text, m.gs, m.ge)))

\* value.split(','): the pieces between the commas, from index i on; cur is
\* the piece being read.
RECURSIVE SplitComma(_, _, _)
SplitComma(t, i, cur) ==
  IF i > Len(t) THEN <<cur>>
  ELSE IF t[i] = "," THEN <<cur>> \o SplitComma(t, i + 1, <<>>)
  ELSE SplitComma(t, i + 1, Append(cur, t[i]))

\* Maps Strip over the pieces.
StripAll(items) == [i \in 1..Len(items) |-> Strip(items[i])]

\* _extract_list_field (lines 217-237): [] when the field is not there.
extract_list_field(pats, text, field_name) ==
  LET value == extract_field(pats, text, field_name)
  IN  IF ~Truthy(value) THEN <<>>
      ELSE SelectSeq(StripAll(SplitComma(value.text, 1, <<>>)),
                     LAMBDA item : item # <<>>)

\* The placeholder of email_data.get('subject', 'No Subject').
NoSubject == <<"No", " ", "Subject">>

\* _get_summary (lines 102-115)
get_summary(cfg, email_data) ==
  LET subject == IF "subject" \in DOMAIN email_data
                   THEN email_data["subject"] ELSE NoSubject
  IN  IF cfg.subject_prefix # <<>>
        THEN cfg.subject_prefix \o <<" ">> \o subject
        ELSE subject

\* The text _get_description cleans: body, or html_body when body is empty
\* (lines 127-131).
DescriptionSource(email_data) ==
  IF email_data["body"] = <<>> /\ email_data["html_body"] # <<>>
    THEN email_data["html_body"]
    ELSE email_data["body"]

\* _get_description (lines 117-146)
get_description(cfg, email_data) ==
  <<"\n", "From", ":", " ">> \o email_data["sender"]
  \o <<"\n", "Date", ":", " ">> \o email_data["date"]
  \o <<"\n", "\n">>
  \o clean_body(Patterns(cfg.custom_patterns), DescriptionSource(email_data))
  \o <<"\n">>

\* Faulty variant: a field the payload already has is left as it is.
SetField_KeepExisting(data, jira_field, value) ==
  [f \in DOMAIN data \cup {jira_field} |->
     IF f \in DOMAIN data THEN data[f] ELSE value]

\* jira_data[jira_field] = value (line 252)
SetField(data, jira_field, value) ==
  [f \in DOMAIN data \cup {jira_field} |->
     IF f = jira_field THEN value ELSE data[f]]

\* _apply_field_mappings (lines 239-254): the mappings in dictionary order,
\* from the k-th on.
RECURSIVE apply_field_mappings(_, _, _, _)
apply_field_mappings(mappings, email_data, data, k) ==
  IF k > Len(mappings) THEN data
  ELSE LET email_field == mappings[k][1]
           jira_field == mappings[k][2]
       IN  IF email_field \in DOMAIN email_data
              /\ email_data[email_field] # <<>>
             THEN apply_field_mappings(mappings, email_data,
                    SetField(data, jira_field, email_data[email_field]),
                    k + 1)
             ELSE apply_field_mappings(mappings, email_data, data, k + 1)

\* Faulty variant: 'priority' starts from the default issue type.
InitialPayload_PrioritySlip(cfg, email_data) ==
  [f \in {"summary", "description", "issue_type", "priority", "labels",
          "components", "assignee", "attachments"} |->
     CASE f = "summary" -> get_summary(cfg, email_data)
       [] f = "description" -> get_description(cfg, email_data)
       [] f = "issue_type" -> cfg.default_issue_type
       [] f = "priority" -> cfg.default_issue_type
       [] f = "labels" -> <<>>
       [] f = "components" -> <<>>
       [] f = "assignee" -> "None"
       [] f = "attachments" -> email_data["attachments"]]

\* jira_data as parse_email first builds it (lines 58-67).
InitialPayload(cfg, email_data) ==
  [f \in {"summary", "description", "issue_type", "priority", "labels",
          "components", "assignee", "attachments"} |->
     CASE f = "summary" -> get_summary(cfg, email_data)
       [] f = "description" -> get_description(cfg, email_data)
       [] f = "issue_type" -> cfg.default_issue_type
       [] f = "priority" -> cfg.default_priority
       [] f = "labels" -> <<>>
       [] f = "components" -> <<>>
       [] f = "assignee" -> "None"
       [] f = "attachments" -> email_data["attachments"]]

\* jira_data after the five extractions (lines 69-95), before the mappings.
ExtractedPayload(cfg, email_data) ==
  LET pats == Patterns(cfg.custom_patterns)
      body == email_data["body"]
      first == InitialPayload(cfg, email_data)
      issue_type == extract_field(pats, body, "issue_type")
      priority == extract_field(pats, body, "priority")
      components == extract_list_field(pats, body, "components")
      labels == extract_list_field(pats, body, "labels")
      assignee == extract_field(pats, body, "assignee")
  IN  [f \in DOMAIN first |->
         CASE f = "issue_type" /\ Truthy(issue_type) -> issue_type.text
           [] f = "priority" /\ Truthy(priority) -> priority.text
           [] f = "components" /\ components # <<>> -> components
           [] f = "labels" /\ labels # <<>> -> labels
           [] f = "assignee" /\ Truthy(assignee) -> assignee.text
           [] OTHER -> first[f]]

\* parse_email (lines 47-100), all of the payload.
EmailParser_parse_email(cfg, email_data) ==
  apply_field_mappings(cfg.field_mappings, email_data,
                       ExtractedPayload(cfg, email_data), 1)

\* ------------------------------------------------- EmailParser, driven alone
MaxBody == 6

MaxPieces == 4

\* All texts of at most n tokens over an alphabet.
Texts(alphabet, n) == UNION {[1..k -> alphabet] : k \in 0..n}

\* Tokens of which the field patterns are made.
FieldAlphabet == {"type", ":", "x", " "}

\* Pieces of which bodies with signatures and quoted replies are made: a
\* word, blanks, and the markers "\n-- " (a "\n" is to follow), "\n> ",
\* "\nRegards," and "\nOn ".
MarkerPieces ==
  { <<"x">>, <<"\n">>, <<" ">>, <<"\n", "--", " ">>, <<"\n", ">", " ">>,
    <<"\n", "Regards", ",">>, <<"\n", "On", " ">> }

\* The pieces of a sequence, one after the other, from the k-th on.
RECURSIVE Concat(_, _)
Concat(pieces, k) ==
  IF k > Len(pieces) THEN <<>> ELSE pieces[k] \o Concat(pieces, k + 1)

MarkerBodies == {Concat(ps, 1) : ps \in Texts(MarkerPieces, MaxPieces)}

\* "Hello\n> quoted\nRegards,\nFooter"
ExampleBody ==
  <<"Hello", "\n", ">", " ", "quoted", "\n", "Regards", ",", "\n", "Footer">>

\* "priority: Low\nlabels: a, b-c\nassignee: x.y"
TaggedBody ==
  <<"priority", ":", " ", "Low", "\n", "label", "s", ":", " ", "a", ",",
    " ", "b", "--", "c", "\n", "assignee", ":", " ", "x", ".", "y">>

\* EmailParser.__init__ with an empty configuration (lines 28-33).
DefaultParserConfig ==
  [subject_prefix |-> <<>>, default_issue_type |-> <<"Story">>,
   default_priority |-> <<"Medium">>, custom_patterns |-> <<>>,
   field_mappings |-> <<>>]

\* A custom pattern under a new name: (?i)epic:\s*(\w+)
EpicPattern == [name |-> "epic_link", kw |-> "epic", optS |-> FALSE,
                cls |-> {"w"}]

\* The record EmailReader builds for a message (email_reader.py lines
\* 185-192 and 146): every key is always there, '' when the header is not.
Message(subject, sender, body, html_body, attachments) ==
  [f \in {"subject", "sender", "date", "body", "html_body", "attachments",
          "id"} |->
     CASE f = "subject" -> subject
       [] f = "sender" -> sender
       [] f = "date" -> <<"today">>
       [] f = "body" -> body
       [] f = "html_body" -> html_body
       [] f = "attachments" -> attachments
       [] f = "id" -> <<"1">>]

\* Field mappings the configuration is drawn from, as (email field, Jira
\* field) pairs in dictionary order.
MappingChoices ==
  { <<>>,
    << <<"sender", "reporter">> >>,
    << <<"subject", "priority">> >>,
    << <<"sender", "reporter">>, <<"subject", "reporter">> >>,
    << <<"sender", "issue_type">>, <<"to", "labels">> >> }

\* Inputs that vary the body under the default configuration.
BodyCases ==
  {<<DefaultParserConfig, Message(<<"x">>, <<"a", "@", "b">>, b, <<>>, <<>>)>> :
     b \in Texts(FieldAlphabet, MaxBody) \cup MarkerBodies
           \cup {ExampleBody, TaggedBody}}

\* Inputs that vary the configuration and the headers.
FieldCases ==
  {<<[subject_prefix |-> prefix, default_issue_type |-> <<"Story">>,
      default_priority |-> <<"Medium">>, custom_patterns |-> custom,
      field_mappings |-> mappings],
     Message(subject, sender, body, html_body, attachments)>> :
     prefix \in {<<>>, <<"Email">>},
     custom \in {<<>>, <<EpicPattern>>},
     mappings \in MappingChoices,
     subject \in {<<>>, <<"Hi">>},
     sender \in {<<>>, <<"a", "@", "b">>},
     body \in {<<>>, <<"x">>, <<"epic", ":", "E1">>, TaggedBody},
     html_body \in {<<>>, <<"h">>},
     attachments \in {<<>>, <<AttachmentRecord(1)>>}}

\* Every variable but parser is at rest while the parser is driven.
restVars == <<runVars, client, api>>

\* An EmailParser and a message, before anything is called.
InitParser ==
  /\ pc = "parser"
  /\ RunIdle
  /\ client = "None"
  /\ api = <<>>
  /\ \E input \in BodyCases \cup FieldCases :
       parser = [stage |-> "new", cfg |-> input[1], email |-> input[2],
                 extracted |-> <<>>, payload |-> <<>>, truncated |-> <<>>, cleaned |-> <<>>,
                 recleaned |-> <<>>]

\* payload = parser.parse_email(email_data); extracted is the value of its
\* local variable jira_data before the mappings are applied (line 97).
ParserParse ==
  /\ pc = "parser"
  /\ parser.stage = "new"
  /\ parser' = [parser EXCEPT
                  !.stage = "parsed",
                  !.extracted = ExtractedPayload(parser.cfg, parser.email),
                  !.payload = EmailParser_parse_email(parser.cfg, parser.email)]
  /\ UNCHANGED restVars

\* cleaned = parser._clean_body(body); truncated is the value of its local
\* variable body after the two truncation loops.
ParserClean ==
  /\ pc = "parser"
  /\ parser.stage = "parsed"
  /\ parser' = [parser EXCEPT
                  !.stage = "cleaned",
                  !.truncated = Truncated(Patterns(parser.cfg.custom_patterns),
                                          parser.email["body"]),
                  !.cleaned = clean_body(Patterns(parser.cfg.custom_patterns),
                                         parser.email["body"])]
  /\ UNCHANGED restVars

\* recleaned = parser._clean_body(cleaned)
ParserCleanAgain ==
  /\ pc = "parser"
  /\ parser.stage = "cleaned"
  /\ parser' = [parser EXCEPT
                  !.stage = "recleaned",
                  !.recleaned = clean_body(Patterns(parser.cfg.custom_patterns),
                                           parser.cleaned)]
  /\ UNCHANGED restVars

NextParser == ParserParse \/ ParserClean \/ ParserCleanAgain

SpecParser == InitParser /\ [][NextParser]_vars

\* C16: cleaning a cleaned body gives the same text again.
C16_CleanIdempotent ==
  (pc = "parser" /\ parser.stage = "recleaned") =>
    parser.recleaned = parser.cleaned

\* parse_email has returned.
Parsed == pc = "parser" /\ parser.stage # "new"

\* The summary the placeholder gives under a configuration.
PlaceholderSummary(cfg) ==
  IF cfg.subject_prefix # <<>>
    THEN cfg.subject_prefix \o <<" ">> \o NoSubject
    ELSE NoSubject

\* C17: the payload of parse_email has a non-empty summary and a non-empty
\* description, and a message without a subject gets the summary
\* "No Subject".
C17_SummaryAndDescriptionNonEmpty ==
  Parsed =>
    /\ parser.payload["summary"] # <<>>
    /\ parser.payload["description"] # <<>>
    /\ parser.email["subject"] = <<>> =>
         parser.payload["summary"] = PlaceholderSummary(parser.cfg)

\* No extraction pattern of the parser matches the body of the message.
NoPatternMatches(cfg, email_data) ==
  \A k \in 1..Len(Patterns(cfg.custom_patterns)) :
    Search(Patterns(cfg.custom_patterns)[k], email_data["body"]).end = 0

\* Indices of the mappings _apply_field_mappings applies: the email field
\* is there and truthy.
AppliedMappings(cfg, email_data) ==
  {k \in 1..Len(cfg.field_mappings) :
     /\ cfg.field_mappings[k][1] \in DOMAIN email_data
     /\ email_data[cfg.field_mappings[k][1]] # <<>>}

\* The Jira fields the applied mappings write.
AppliedTargets(cfg, email_data) ==
  {cfg.field_mappings[k][2] : k \in AppliedMappings(cfg, email_data)}

\* The value the payload field f has when nothing is extracted for it.
DefaultOf(cfg, f) ==
  CASE f = "issue_type" -> cfg.default_issue_type
    [] f = "priority" -> cfg.default_priority
    [] f = "labels" -> <<>>
    [] f = "components" -> <<>>

\* C18 as stated: when no pattern matches, issue_type and priority are the
\* configured defaults and labels and components are empty.
C18_DefaultsWhenNoMatch_AsStated ==
  (Parsed /\ NoPatternMatches(parser.cfg, parser.email)) =>
    \A f \in {"issue_type", "priority", "labels", "components"} :
      parser.payload[f] = DefaultOf(parser.cfg, f)

\* C18: when no pattern matches, each of issue_type, priority, labels and
\* components that is not the target of an applied field mapping has its
\* default: the configured default issue type, the configured default
\* priority, the empty sequence.
C18_DefaultsWhenNoMatch ==
  (Parsed /\ NoPatternMatches(parser.cfg, parser.email)) =>
    \A f \in {"issue_type", "priority", "labels", "components"}
              \ AppliedTargets(parser.cfg, parser.email) :
      parser.payload[f] = DefaultOf(parser.cfg, f)

C18_Witness ==
  /\ Parsed
  /\ parser.email["body"] # <<>>
  /\ NoPatternMatches(parser.cfg, parser.email)
  /\ "issue_type" \in AppliedTargets(parser.cfg, parser.email)
  /\ parser.payload["issue_type"] = parser.email["sender"]
  /\ parser.payload["priority"] = parser.cfg.default_priority
  /\ parser.payload["labels"] = <<>>

\* Every payload field that no applied mapping targets has the value it had
\* after extraction, and no such field was added.
UnmappedFieldsKept ==
  \A f \in DOMAIN parser.payload \ AppliedTargets(parser.cfg, parser.email) :
    /\ f \in DOMAIN parser.extracted
    /\ parser.payload[f] = parser.extracted[f]

\* C19 as stated: for each applied mapping the target field of the payload
\* equals the message value of its source field, and unmapped fields keep
\* their extracted or default value.
C19_MappingsWin_AsStated ==
  Parsed =>
    /\ \A k \in AppliedMappings(parser.cfg, parser.email) :
         /\ parser.cfg.field_mappings[k][2] \in DOMAIN parser.payload
         /\ parser.payload[parser.cfg.field_mappings[k][2]]
              = parser.email[parser.cfg.field_mappings[k][1]]
    /\ UnmappedFieldsKept

\* The applied mapping that comes last in the configuration among those
\* with the target field f.
LastMappingTo(cfg, email_data, f) ==
  CHOOSE k \in AppliedMappings(cfg, email_data) :
    /\ cfg.field_mappings[k][2] = f
    /\ \A j \in AppliedMappings(cfg, email_data) :
         cfg.field_mappings[j][2] = f => j <= k

\* C19: mappings are applied after extraction and win over it: every target
\* field of an applied mapping equals the message value of the source field
\* of the last applied mapping with that target, whatever was extracted, and
\* every other payload field keeps its extracted or default value.
C19_MappingsWin ==
  Parsed =>
    /\ \A f \in AppliedTargets(parser.cfg, parser.email) :
         /\ f \in DOMAIN parser.payload
         /\ parser.payload[f]
              = parser.email[parser.cfg.field_mappings[
                               LastMappingTo(parser.cfg, parser.email, f)][1]]
    /\ UnmappedFieldsKept

C19_Witness ==
  /\ Parsed
  /\ parser.extracted["priority"] = <<"Low">>
  /\ "priority" \in AppliedTargets(parser.cfg, parser.email)
  /\ parser.payload["priority"] = <<"Hi">>
  /\ parser.payload["assignee"] = <<"x", ".", "y">>

\* The offsets at which any signature or quoted-reply marker occurs.
MarkerOffsets(body) ==
  UNION {Occurrences(body, SignatureMarkers[k]) :
           k \in 1..Len(SignatureMarkers)}
  \cup UNION {Occurrences(body, QuotedMarkers[k]) :
                k \in 1..Len(QuotedMarkers)}

\* The text before the smallest offset of any marker, all of it when no
\* marker occurs.
BeforeEarliestMarker(body) ==
  IF MarkerOffsets(body) = {} THEN body
  ELSE SubSeq(body, 1,
              (CHOOSE i \in MarkerOffsets(body) :
                 \A j \in MarkerOffsets(body) : i <= j) - 1)

\* _clean_body has returned.
Cleaned == pc = "parser" /\ parser.stage \in {"cleaned", "recleaned"}

\* C20: the two truncation loops keep exactly the text before the earliest
\* occurrence of any signature or quoted-reply marker, wherever the marker
\* stands in its list, and "Hello\n> quoted\nRegards,\nFooter" cleans to
\* "Hello".
C20_EarliestMarker ==
  Cleaned =>
    /\ parser.truncated
         = BeforeEarliestMarker(
             RemoveFields(Patterns(parser.cfg.custom_patterns),
                          parser.email["body"], 1))
    /\ parser.email["body"] = ExampleBody => parser.cleaned = <<"Hello">>

C20_Witness ==
  /\ Cleaned
  /\ parser.email["body"] = ExampleBody
  /\ Occurrences(ExampleBody, SignatureMarkers[2]) = {6}
  /\ Occurrences(ExampleBody, QuotedMarkers[2]) = {2}
  /\ parser.truncated = <<"Hello">>
  /\ parser.cleaned = <<"Hello">>

\* ------------------------------------------------- cycle after cycle
MaxCycles == 2

\* Cycles started so far: each one begins with email_reader.connect().
CyclesStarted == TimesInvoked("email_reader.connect", 0)

\* The first non-dry-run cycle on a mailbox; calls is kept over the cycles.
InitCycles ==
  /\ pc = "connect"
  /\ dry_run = FALSE
  /\ max_emails = DefaultMaxEmails
  /\ \E n \in 0..MaxUnread :
       /\ unseen = [i \in 1..n |-> i]
       /\ mail \in [1..n -> 0..MaxAttachments]
  /\ connection = "None"
  /\ client = "None"
  /\ emails = <<>>
  /\ idx = 0
  /\ jira_data = "None"
  /\ issue_key = "None"
  /\ successful_count = 0
  /\ result = "none"
  /\ calls = <<>>
  /\ counted = {}
  /\ log_errors = <<>>
  /\ config = FullConfig
  /\ initialized = "True"
  /\ exit_code = "none"
  /\ api = <<>>
  /\ parser = "none"
  /\ server = NoAnswer

\* main is started again on the same mailbox: a new Email2Jira with new
\* collaborators (email2jira.py lines 216-218, 55-57); what is unread on the
\* server is what the cycles before left unread.
StartCycle ==
  /\ pc = "done"
  /\ CyclesStarted < MaxCycles
  /\ pc' = "connect"
  /\ connection' = "None"
  /\ client' = "None"
  /\ emails' = <<>>
  /\ idx' = 0
  /\ jira_data' = "None"
  /\ issue_key' = "None"
  /\ successful_count' = 0
  /\ result' = "none"
  /\ counted' = {}
  /\ log_errors' = <<>>
  /\ server' = NoAnswer
  /\ UNCHANGED <<RunState, unseen, calls>>

NextCycles == Next \/ StartCycle

SpecCycles == InitCycles /\ [][NextCycles]_vars

\* Number of calls of create_issue for message id that returned a key.
TicketsFor(id) ==
  Cardinality({i \in DOMAIN calls :
                 /\ calls[i].op = "jira_client.create_issue"
                 /\ calls[i].msg = id
                 /\ calls[i].ret = "KEY"})

\* C21: over any sequence of non-dry-run cycles on one mailbox at most one
\* ticket is created per message: a message whose create_issue returned a
\* key is read when that cycle ends, and is never ticketed again.
C21_OneTicketPerMessage ==
  \A id \in DOMAIN mail :
     /\ TicketsFor(id) <= 1
     /\ (pc = "done" /\ TicketsFor(id) >= 1) =>
          \A i \in DOMAIN unseen : unseen[i] # id

\* No connect() is called between the i-th and the j-th operation.
NoConnectBetween(i, j) ==
  \A k \in (i + 1)..(j - 1) : api[k].op # "connect"

\* C22: after connect() has returned False the JiraClient is not connected:
\* its client is None, and every later operation is refused by the guard,
\* with its failure value and without a library call.
C22_FailedConnectNotConnected ==
  \A i \in DOMAIN api :
     (api[i].op = "connect" /\ api[i].ret = "False") =>
        /\ i = Len(api) => client = "None"
        /\ i < Len(api) => api[i + 1].before = "None"
        /\ \A j \in (i + 1)..Len(api) :
             (api[j].op \in DataOps /\ NoConnectBetween(i, j)) =>
                /\ api[j].ret = FailureValue(api[j].op)
                /\ api[j].remote = <<>>

\* A step of run's setup failed: the source connect, the mailbox selection,
\* or (outside dry-run mode) the sink connect.
SetupFailed ==
  \/ Returned("email_reader.connect", 0, "False")
  \/ Returned("email_reader.select_mailbox", 0, "False")
  \/ ~dry_run /\ Returned("jira_client.connect", 0, "False")

\* C23: run returns False exactly when the source connect, the mailbox
\* selection or (outside dry-run mode) the sink connect fails, and True in
\* every other case, however many messages fail; main exits with status 1
\* exactly when initialize or run returned False, and with 0 otherwise.
C23_ResultAndExitCode ==
  /\ result # "none" => (result = "False" <=> SetupFailed)
  /\ result # "none" => initialized = "True"
  /\ pc = "exit" =>
       /\ exit_code \in {"0", "1"}
       /\ exit_code = "1" <=> (initialized = "False" \/ result = "False")

C23_Witness ==
  /\ pc = "exit"
  /\ ~dry_run
  /\ Len(emails) = 2
  /\ Len(log_errors) = 2
  /\ successful_count = 0
  /\ result = "True"
  /\ exit_code = "0"

\* get_unread_emails has returned.
FetchDone == Invoked("email_reader.get_unread_emails", 0)

\* A per-message call was made for message id.
Touched(id) ==
  \E i \in DOMAIN calls : calls[i].op \in PerMessageOps /\ calls[i].msg = id

\* C24: when the UNSEEN search fails (status not OK, or an exception),
\* get_unread_emails returns an empty list and run ends as for an empty
\* mailbox: the source is disconnected, the sink is never connected, no
\* message is touched and run returns True; and a message whose own fetch
\* fails is skipped: it is not in the fetched list, stays unread and the
\* fetched list holds exactly the other messages that were tried.
C24_FetchFailures ==
  /\ (FetchDone /\ server.search # "OK") =>
       /\ emails = <<>>
       /\ pc = "done"
       /\ result = "True"
       /\ connection = "None"
       /\ calls[Len(calls)].op = "email_reader.disconnect"
       /\ ~Invoked("jira_client.connect", 0)
       /\ NoPerMessageCall
       /\ successful_count = 0
       /\ log_errors = <<>>
       /\ Len(unseen) = Len(mail)
  /\ FetchDone =>
       \A id \in server.failed :
          /\ id \notin FetchedIds
          /\ \E i \in DOMAIN unseen : unseen[i] = id
          /\ ~Touched(id)
  /\ (FetchDone /\ server.search = "OK") =>
       Len(emails) + Cardinality(server.failed)
         = Len(SliceLimit([i \in DOMAIN mail |-> i], max_emails))

C24_Witness ==
  /\ pc = "done"
  /\ ~dry_run
  /\ server.search = "raise"
  /\ Len(unseen) >= 2
  /\ max_emails >= 2
  /\ emails = <<>>
  /\ result = "True"
  /\ connection = "None"

\* The operations run calls on the reader's connection and on the Jira
\* client's.
SourceOps ==
  {"email_reader.select_mailbox", "email_reader.get_unread_emails",
   "email_reader.mark_as_read", "email_reader.disconnect"}

SinkOps ==
  {"jira_client.create_issue", "jira_client.add_attachment",
   "jira_client.disconnect"}

\* Before the j-th call, open succeeded and close was not called since.
OpenBefore(j, open, close) ==
  /\ \E i \in 1..(j - 1) : calls[i].op = open /\ calls[i].ret = "True"
  /\ \A i \in 1..(j - 1) : calls[i].op # close

\* C25: in a cycle every mark_as_read comes after a successful source
\* connect and a successful mailbox selection and before the source
\* disconnect, every create_issue and add_attachment comes after a
\* successful sink connect and before the sink disconnect, and no operation
\* is called on a connection that is not open at that moment.
C25_OnlyOnOpenConnections ==
  /\ \A j \in DOMAIN calls :
       /\ calls[j].op \in SourceOps =>
            OpenBefore(j, "email_reader.connect", "email_reader.disconnect")
       /\ calls[j].op = "email_reader.mark_as_read" =>
            \E i \in 1..(j - 1) :
               /\ calls[i].op = "email_reader.select_mailbox"
               /\ calls[i].ret = "True"
       /\ calls[j].op \in SinkOps =>
            OpenBefore(j, "jira_client.connect", "jira_client.disconnect")
  /\ pc \in {"select", "fetch", "mark"} => connection # "None"
  /\ pc \in {"create", "attach"} => client # "None"

C25_Witness ==
  /\ pc = "done"
  /\ ~dry_run
  /\ Len(emails) >= 2
  /\ \E id \in FetchedIds : Returned("jira_client.create_issue", id, "KEY")
  /\ \E id \in FetchedIds : Invoked("email_reader.mark_as_read", id)
  /\ Invoked("jira_client.disconnect", 0)
  /\ connection = "None"
  /\ client = "None"

====
